---- MODULE Spec2Model ----
(***************************************************************************)
(* A state-machine model of the portfolio page scripts: src/script.js and  *)
(* the two earlier copies of the script held in src/unnamed/part_000.      *)
(*                                                                         *)
(* One action stands for one handler, timer callback or promise            *)
(* continuation of the scripts.  The page is a single JavaScript thread,   *)
(* so every handler runs to completion and the interleavings are those of  *)
(* whole handlers.                                                         *)
(***************************************************************************)
EXTENDS Naturals, Integers, Sequences, FiniteSets, TLC

NULL == "null"

\* The three copies of the script: src/script.js ("soft" click sounds),
\* part_000 lines 1-838 ("keyboard" sounds), part_000 lines 839-1612 ("tone").
Versions == {"soft", "keyboard", "tone"}

(***************************************************************************)
(* Bounds of the model.                                                    *)
(***************************************************************************)
MaxChordTimers == 3
MaxInitCalls == 3
MaxClickEffects == 1
MaxThemeTimers == 1
MaxHideTimers == 1
MaxToasts == 2
MaxScaleTimers == 2

VARIABLES
    version,        \* which copy of the script the page runs
    lastOp,         \* history: the handler that ran last, with its argument
    \* ---- section navigation
    heroDisplay,    \* .hero-desk style.display
    hidden,         \* element id -> whether classList holds 'hidden'
    display,        \* element id -> style.display
    activeLink,     \* the nav link carrying class 'active'
    \* ---- SoundSystem
    audioContext,   \* NULL or "ctx"
    soundsBound,    \* whether this.sounds holds the seven synthesis functions
    isEnabled,
    chordTimers,    \* pending staggered chord-note timers
    lastStarted,    \* history: source nodes started by the last handler
    lastNodes,      \* history: those nodes, with their start and stop times
    lastError,      \* history: the error the last handler's play raised
    volume,         \* this.volume
    initCalls,      \* history: calls of SoundSystem.init in this page load
    initFailed,     \* history: calls of init whose AudioContext constructor threw
    toggleIcon, toggleTitle, \* the sound toggle button
    clickEffects,   \* .click-effect elements attached by the capture handler
    \* ---- ThemeManager
    currentTheme, dataTheme, metaColor, bodyTransition, themeTimers,
    localTheme,     \* localStorage['theme']: survives a reload
    \* ---- contact form
    fields,         \* current values of the four form controls
    submitted,      \* history: the values FormData read at the last submit
    location,       \* the mailto link window.location.href was set to, else <<>>
    formHidden,     \* #quickContactForm carries 'hidden'
    hideTimers,     \* pending 1000 ms timers of sendQuickEmail
    hideTimerRan,   \* history: outcome of the last 1000 ms callback
    \* ---- notifications
    toasts,         \* attached notification elements, in document order
    toastTimers,    \* notification id -> stage of its removal timer
    \* ---- resume data hydration
    resumePc,       \* position of the async function loadResumeData
    resumePromise,  \* state of the promise loadResumeData returned
    resumeNotes,    \* history: notification types shown by this call
    resumeRun,      \* history: what the call went through
    fetchCalls,     \* history: fetches issued in this page load
    page,           \* the page content updateWebsiteContent writes
    pageBefore,     \* history: page when loadResumeData was called
    \* ---- click effect
    transform,      \* the inline style.transform of the notepad on the desk
    scaleTimers     \* pending 150 ms timers of addClickEffect on it

navVars == <<heroDisplay, hidden, display, activeLink>>
soundVars == <<audioContext, soundsBound, isEnabled, chordTimers, lastStarted,
               lastNodes, lastError, volume,
               initCalls, initFailed, toggleIcon, toggleTitle, clickEffects>>
themeVars == <<currentTheme, dataTheme, metaColor, bodyTransition, themeTimers,
               localTheme>>
mailVars == <<fields, submitted, location, formHidden, hideTimers, hideTimerRan>>
toastVars == <<toasts, toastTimers>>
resumeVars == <<resumePc, resumePromise, resumeNotes, resumeRun, fetchCalls,
                page, pageBefore>>
clickVars == <<transform, scaleTimers>>
vars == <<version, lastOp, navVars, soundVars, themeVars, mailVars, toastVars,
          resumeVars, clickVars>>

Op(name, arg) == [op |-> name, arg |-> arg]

(***************************************************************************)
(* Section navigation: showSection, showHeroSection, openSection, the nav  *)
(* link handler and the number-key shortcuts.                              *)
(***************************************************************************)
\* Elements carrying class 'content-section'.
ContentSections == {"about", "experience", "projects", "contact"}
\* An element with an id that is no content section (the laptop on the desk).
OtherElements == {"laptop"}
Elements == ContentSections \cup OtherElements
\* An id no element carries.
MissingId == "nosuch"
\* The ids a caller can hand to showSection.
SectionIds == Elements \cup {MissingId}
\* href targets of the nav links ('#home' is the hero scene).
NavTargets == {"home"} \cup SectionIds
\* document.getElementById
GetElementById(id) == IF id \in Elements THEN id ELSE NULL

\* Faulty variant, for comparison: the target section is revealed, the others keep their classes.
ShownHiddenKeepOthers(h, id) ==
    IF GetElementById(id) # NULL THEN [h EXCEPT ![id] = FALSE] ELSE h

\* The 'hidden' classes after showSection(id): every content section gains
\* the class, then the target (any element with that id) loses it.
ShownHidden(h, id) ==
    LET all == [e \in Elements |-> IF e \in ContentSections THEN TRUE ELSE h[e]]
    IN  IF GetElementById(id) # NULL THEN [all EXCEPT ![id] = FALSE] ELSE all

\* showSection(sectionId).  (The entrance animation, with its 100 ms timer,
\* changes only the target's opacity, transform and transition.)
ShowSection(id) ==
    /\ heroDisplay' = "none"
    /\ hidden' = ShownHidden(hidden, id)
    /\ IF GetElementById(id) # NULL
       THEN display' = [display EXCEPT ![id] = "block"]
       ELSE UNCHANGED display

\* showHeroSection()
ShowHeroSection ==
    /\ hidden' = [e \in Elements |-> IF e \in ContentSections THEN TRUE ELSE hidden[e]]
    /\ display' = [e \in Elements |-> IF e \in ContentSections THEN "none" ELSE display[e]]
    /\ heroDisplay' = "flex"

NavLinkClick(target) ==
    /\ IF target = "home" THEN ShowHeroSection ELSE ShowSection(target)
    /\ activeLink' = target
    /\ lastOp' = IF target = "home" THEN Op("showHeroSection", target)
                 ELSE Op("showSection", target)

\* keydown: Escape, and the keys 1-4 of keyMap.
KeyMap == [k \in {"1", "2", "3", "4"} |->
             CASE k = "1" -> "home" [] k = "2" -> "about"
               [] k = "3" -> "experience" [] OTHER -> "contact"]

KeyNavigation(key) ==
    /\ IF key = "Escape" \/ KeyMap[key] = "home"
       THEN ShowHeroSection /\ lastOp' = Op("showHeroSection", key)
       ELSE ShowSection(KeyMap[key]) /\ lastOp' = Op("showSection", KeyMap[key])
    /\ UNCHANGED activeLink

OpenSection(id) ==
    /\ ShowSection(id)
    /\ lastOp' = Op("showSection", id)
    /\ UNCHANGED activeLink

InitNav ==
    /\ heroDisplay = ""
    /\ hidden = [e \in Elements |-> e \in ContentSections]
    /\ display = [e \in Elements |-> ""]
    /\ activeLink = "home"

(***************************************************************************)
(* SoundSystem: constructor, init, createSounds, the synthesis closures,   *)
(* play and toggle, in the three copies of the script.                     *)
(***************************************************************************)
SoundNames == {"click", "hover", "navigation", "button", "keypress", "success",
               "notification"}

\* Source nodes (oscillators and noise buffer sources) the closure bound to
\* `name` starts before it returns, once past its guard.
\*   soft:     three oscillators, and a noise source unless the type is 'subtle'
\*   keyboard: one oscillator per frequency and addKeyboardNoise; the chord
\*             starts only its noise source and leaves its notes to timers
\*   tone:     one oscillator; the chord leaves all its notes to timers
SyncSources(v, name) ==
    CASE v = "soft" -> IF name = "hover" THEN 3 ELSE 4
      [] v = "keyboard" -> IF name = "success" THEN 1
                           ELSE IF name = "keypress" THEN 4 ELSE 3
      [] OTHER -> IF name = "success" THEN 0 ELSE 1

\* Timers the closure sets: the chord's forEach calls setTimeout once for each
\* of its three frequencies (index * 30 ms, or index * 50 ms).
ChordNotes(v, name) ==
    IF v \in {"keyboard", "tone"} /\ name = "success" THEN 3 ELSE 0

\* A JavaScript number: NaN, or a value held in hundredths (1 is Num(100)).
Num(n) == [nan |-> FALSE, n |-> n]
NaN == [nan |-> TRUE, n |-> 0]

\* Math.min and Math.max: NaN if either argument is NaN.
MathMin(a, b) == IF a.nan \/ b.nan THEN NaN ELSE IF a.n <= b.n THEN a ELSE b
MathMax(a, b) == IF a.nan \/ b.nan THEN NaN ELSE IF a.n >= b.n THEN a ELSE b

\* this.volume as the constructor sets it: 0.4, 0.2 and 0.3.
InitialVolume(v) ==
    CASE v = "soft" -> Num(40) [] v = "keyboard" -> Num(20) [] OTHER -> Num(30)

\* Faulty variant, for comparison: a sound of no length.
DurationNone(v, name) == 0

\* The duration of the sound bound to `name`, in milliseconds: soundConfig
\* of createSoftClickSound, and the second argument of the calls in
\* createSounds of part_000.
Duration(v, name) ==
    CASE v = "soft" ->
           (CASE name = "hover" -> 100 [] name = "navigation" -> 110
              [] name = "button" -> 130 [] name = "success" -> 150
              [] OTHER -> 120)
      [] v = "keyboard" ->
           (CASE name = "click" -> 80 [] name = "hover" -> 40
              [] name = "navigation" -> 100 [] name = "button" -> 90
              [] name = "keypress" -> 60 [] name = "success" -> 150
              [] OTHER -> 80)
      [] OTHER ->
           (CASE name = "click" -> 100 [] name = "hover" -> 50
              [] name = "navigation" -> 150 [] name = "button" -> 120
              [] name = "keypress" -> 80 [] name = "success" -> 200
              [] OTHER -> 100)

\* A started node: start(at) and stop(until), in milliseconds after
\* currentTime; a node never given a stop time has stops FALSE.
Oscillator(at, until) == [kind |-> "oscillator", start |-> at, stops |-> TRUE, stop |-> until]
NoiseSource(at, until) == [kind |-> "noise", start |-> at, stops |-> TRUE, stop |-> until]
OpenNoiseSource(at) == [kind |-> "noise", start |-> at, stops |-> FALSE, stop |-> at]

\* The nodes the closure bound to `name` starts before it returns.
\*   soft:     the main oscillator, the sub-harmonic (3 ms later) and the
\*             harmonic (8 ms later), all stopped at the duration; the noise
\*             source is started 2 ms in and given no stop time
\*   keyboard: oscillator i starts at 5i ms and stops a duration later;
\*             addKeyboardNoise starts and stops its source
\*   tone:     one oscillator
SyncNodes(v, name) ==
    LET d == Duration(v, name) IN
    CASE v = "soft" ->
           <<Oscillator(0, d), Oscillator(3, d), Oscillator(8, d)>>
             \o (IF name = "hover" THEN <<>> ELSE <<OpenNoiseSource(2)>>)
      [] v = "keyboard" ->
           (IF name = "success" THEN <<>>
            ELSE [i \in 1..(IF name = "keypress" THEN 3 ELSE 2) |->
                    Oscillator(5 * (i - 1), 5 * (i - 1) + d)])
             \o <<NoiseSource(0, d)>>
      [] OTHER -> IF name = "success" THEN <<>> ELSE <<Oscillator(0, d)>>

\* The error the gain envelope of a closure raises before the closure has
\* started a node.  A ramp to NaN is a TypeError (every closure ramps to a
\* multiple of this.volume; createChord does so in its timers only); in
\* createSoftClickSound the exponential ramp to this.volume * config.volume
\* * 0.6 is a RangeError when that is 0.
GainError(v, name, vol) ==
    IF vol.nan THEN (IF v = "tone" /\ name = "success" THEN "none" ELSE "TypeError")
    ELSE IF v = "soft" /\ vol.n = 0 THEN "RangeError"
    ELSE "none"

\* The guard every closure opens with: if (!this.audioContext || !this.isEnabled) return;
ClosureRuns(ctx, enabled) == ctx # NULL /\ enabled

\* play(soundName) with the fields as given: what it starts and what it schedules.
PlayStarts(name, ctx, bound, enabled) ==
    IF bound /\ name \in SoundNames /\ ClosureRuns(ctx, enabled)
         /\ GainError(version, name, volume) = "none"
    THEN SyncSources(version, name) ELSE 0

PlayNodes(name, ctx, bound, enabled) ==
    IF bound /\ name \in SoundNames /\ ClosureRuns(ctx, enabled)
         /\ GainError(version, name, volume) = "none"
    THEN SyncNodes(version, name) ELSE <<>>

PlayError(name, ctx, bound, enabled) ==
    IF bound /\ name \in SoundNames /\ ClosureRuns(ctx, enabled)
    THEN GainError(version, name, volume) ELSE "none"

\* A handler that plays no sound.
NoSound == lastStarted' = 0 /\ lastNodes' = <<>> /\ lastError' = "none"

PlayTimers(name, ctx, bound, enabled) ==
    IF bound /\ name \in SoundNames /\ ClosureRuns(ctx, enabled)
    THEN ChordNotes(version, name) ELSE 0

\* The part of a handler that is soundSystem.play(name); the fields are those
\* the handler has set before the call.
Play(name, ctx, bound, enabled) ==
    /\ chordTimers + PlayTimers(name, ctx, bound, enabled) <= MaxChordTimers
    /\ chordTimers' = chordTimers + PlayTimers(name, ctx, bound, enabled)
    /\ lastStarted' = PlayStarts(name, ctx, bound, enabled)
    /\ lastNodes' = PlayNodes(name, ctx, bound, enabled)
    /\ lastError' = PlayError(name, ctx, bound, enabled)

\* A handler that only plays a sound: the listeners of addSoundEffects, the
\* keydown listener, the MutationObserver's listeners.
PlaySound(name) ==
    /\ Play(name, audioContext, soundsBound, isEnabled)
    /\ lastOp' = Op("play", name)
    /\ UNCHANGED <<audioContext, soundsBound, isEnabled, volume, initCalls,
                   initFailed, toggleIcon, toggleTitle, clickEffects>>

\* One staggered note of a chord: the setTimeout callback of createKeyboardChord
\* and createChord.  It creates and starts an oscillator; it reads no flag.
\* (Its ramp to a multiple of this.volume throws before the start if that
\* is NaN.)
ChordNoteTimer ==
    /\ chordTimers > 0
    /\ chordTimers' = chordTimers - 1
    /\ lastStarted' = IF volume.nan THEN 0 ELSE 1
    /\ lastNodes' = IF volume.nan THEN <<>>
                    ELSE <<Oscillator(0, Duration(version, "success"))>>
    /\ lastError' = IF volume.nan THEN "TypeError" ELSE "none"
    /\ lastOp' = Op("chordNote", NULL)
    /\ UNCHANGED <<audioContext, soundsBound, isEnabled, volume, initCalls,
                   initFailed, toggleIcon, toggleTitle, clickEffects>>

\* toggle()
Toggle(enabled) == ~enabled

\* Faulty variant, for comparison: the icon of the state before the click.
ToggleIconStale(on) == IF on THEN "muted" ELSE "speaker"

\* soundToggle.innerHTML = isEnabled ? (speaker) : (muted speaker)
ToggleIcon(on) == IF on THEN "speaker" ELSE "muted"

\* The click listener of the sound toggle button (createSoundToggle).
SoundToggleClick ==
    LET on == Toggle(isEnabled) IN
    /\ isEnabled' = on
    /\ toggleIcon' = ToggleIcon(on)
    /\ toggleTitle' = IF on THEN "Disable Sound Effects" ELSE "Enable Sound Effects"
    /\ IF on THEN Play("success", audioContext, soundsBound, on)
       ELSE NoSound /\ UNCHANGED chordTimers
    /\ lastOp' = Op("soundToggle", IF on THEN "on" ELSE "off")
    /\ UNCHANGED <<audioContext, soundsBound, volume, initCalls, initFailed,
                   clickEffects>>

\* Faulty variant, for comparison: createSounds runs before the AudioContext
\* constructor is called.
SoundsBeforeContext(ok, bound) == TRUE

\* this.sounds after init: createSounds is reached only if the AudioContext
\* constructor has returned.
SoundsAfterInit(ok, bound) == IF ok THEN TRUE ELSE bound

\* Faulty variant, for comparison: the capture listeners call init whether or not a context exists.
NeedsInitAlways(ctx) == TRUE

\* The capture listeners' test before init: if (!soundSystem.audioContext)
NeedsInit(ctx) == ctx = NULL

\* The document click and touchstart capture listeners of src/script.js: init
\* again while there is no audio context, then play('click'); the click
\* listener also attaches a .click-effect element and sets its 300 ms timer.
\* `ok` is whether the AudioContext constructor returns (it throws otherwise).
\* (If play throws, the listener ends there, before the click effect.)
CaptureListener(kind, ok) ==
    LET again == NeedsInit(audioContext)
        ctx   == IF again /\ ok THEN "ctx" ELSE audioContext
        bound == IF again THEN SoundsAfterInit(ok, soundsBound) ELSE soundsBound
        threw == PlayError("click", ctx, bound, isEnabled) # "none"
    IN  /\ version = "soft"
        /\ again => initCalls < MaxInitCalls
        /\ audioContext' = ctx
        /\ soundsBound' = bound
        /\ initCalls' = IF again THEN initCalls + 1 ELSE initCalls
        /\ initFailed' = IF again /\ ~ok THEN initFailed + 1 ELSE initFailed
        /\ Play("click", ctx, bound, isEnabled)
        /\ IF kind = "click" /\ ~threw
           THEN clickEffects < MaxClickEffects /\ clickEffects' = clickEffects + 1
           ELSE UNCHANGED clickEffects
        /\ lastOp' = Op(kind, IF again THEN "init" ELSE "noinit")
        /\ UNCHANGED <<isEnabled, volume, toggleIcon, toggleTitle>>

\* The 300 ms callback of the click listener removes its .click-effect element.
ClickEffectTimer ==
    /\ clickEffects > 0
    /\ clickEffects' = clickEffects - 1
    /\ NoSound
    /\ lastOp' = Op("clickEffectTimer", NULL)
    /\ UNCHANGED <<audioContext, soundsBound, isEnabled, volume, chordTimers,
                   initCalls, initFailed, toggleIcon, toggleTitle>>

\* The value setVolume(v) stores: Math.max(0, Math.min(1, volume))
Clamped(v) == MathMax(Num(0), MathMin(Num(100), v))

\* setVolume(volume), called on the global soundSystem.
SetVolume(v) ==
    /\ volume' = Clamped(v)
    /\ NoSound
    /\ lastOp' = Op("setVolume", IF v.nan THEN "NaN" ELSE ToString(v.n))
    /\ UNCHANGED <<audioContext, soundsBound, isEnabled, chordTimers, initCalls,
                   initFailed, toggleIcon, toggleTitle, clickEffects>>

\* new SoundSystem(): the constructor sets the fields and calls init, whose
\* AudioContext constructor returns or throws.
InitSound(oks) ==
    /\ \E ok \in oks :
          /\ audioContext = IF ok THEN "ctx" ELSE NULL
          /\ soundsBound = SoundsAfterInit(ok, FALSE)
          /\ initFailed = IF ok THEN 0 ELSE 1
    /\ initCalls = 1
    /\ isEnabled = TRUE
    /\ volume = InitialVolume(version)
    /\ chordTimers = 0
    /\ lastStarted = 0
    /\ lastNodes = <<>>
    /\ lastError = "none"
    /\ toggleIcon = "speaker"
    /\ toggleTitle = "Toggle Sound Effects"
    /\ clickEffects = 0

(***************************************************************************)
(* ThemeManager (src/script.js only).                                      *)
(***************************************************************************)
Themes == {"light", "dark"}

\* Faulty variant, for comparison: the saved preference is ignored.
SavedThemeIgnored(stored) == "light"

\* localStorage.getItem('theme') || 'light'
SavedTheme(stored) == IF stored = NULL THEN "light" ELSE stored

MetaColor(theme) == IF theme = "dark" THEN "#111827" ELSE "#ffffff"

\* setTheme(theme)
SetTheme(theme) ==
    /\ currentTheme' = theme
    /\ dataTheme' = theme
    /\ localTheme' = theme
    /\ metaColor' = MetaColor(theme)

\* toggleTheme(): the click and keydown listeners of #theme-toggle.
\* (If play throws, the function ends there, before the transition is set.)
ToggleTheme ==
    /\ version = "soft"
    /\ SetTheme(IF currentTheme = "light" THEN "dark" ELSE "light")
    /\ Play("button", audioContext, soundsBound, isEnabled)
    /\ IF PlayError("button", audioContext, soundsBound, isEnabled) = "none"
       THEN /\ themeTimers < MaxThemeTimers
            /\ themeTimers' = themeTimers + 1
            /\ bodyTransition' = "all 0.3s ease"
       ELSE UNCHANGED <<themeTimers, bodyTransition>>
    /\ lastOp' = Op("toggleTheme", NULL)
    /\ UNCHANGED <<audioContext, soundsBound, isEnabled, volume, initCalls,
                   initFailed, toggleIcon, toggleTitle, clickEffects>>

\* The 300 ms callback of toggleTheme.
ThemeTimer ==
    /\ themeTimers > 0
    /\ themeTimers' = themeTimers - 1
    /\ bodyTransition' = ""
    /\ lastOp' = Op("themeTimer", NULL)
    /\ UNCHANGED <<currentTheme, dataTheme, metaColor, localTheme>>

\* new ThemeManager() with `stored` in localStorage: init reads the saved
\* preference and setTheme writes it back.  The earlier copies of the script
\* have no ThemeManager and never touch localStorage.
InitTheme(stored) ==
    /\ IF version = "soft"
       THEN /\ currentTheme = SavedTheme(stored)
            /\ dataTheme = SavedTheme(stored)
            /\ localTheme = SavedTheme(stored)
            /\ metaColor = MetaColor(SavedTheme(stored))
       ELSE /\ currentTheme = NULL
            /\ dataTheme = NULL
            /\ localTheme = stored
            /\ metaColor = "#ffffff"
    /\ bodyTransition = ""
    /\ themeTimers = 0

(***************************************************************************)
(* Notifications: showNotification.  In src/script.js the declaration at   *)
(* line 924 replaces the one at line 578 (a later function declaration of  *)
(* the same name wins); part_000 has the earlier form only.                *)
(***************************************************************************)
ToastIds == 1..MaxToasts

Attached(id) == \E i \in 1..Len(toasts) : toasts[i] = id

\* A notification element not yet created: not attached, no timer of its own.
FreshToast(id) == ~Attached(id) /\ toastTimers[id] = "none"

CanNotify == \E id \in ToastIds : FreshToast(id)

NewToast == CHOOSE id \in ToastIds : FreshToast(id) /\ \A j \in ToastIds : FreshToast(j) => id <= j

\* Faulty variant, for comparison: remove() on whichever notification the
\* document shows, not on the element the closure holds.
RemoveToastOnScreen(seq, id) == IF seq = <<>> THEN seq ELSE Tail(seq)

\* notification.remove(): the element leaves the document, if it is in it.
RemoveToast(seq, id) == SelectSeq(seq, LAMBDA x : x # id)

\* Faulty variant, for comparison: the new notification is appended beside
\* the one on screen.
ShowNotificationStacking ==
    /\ CanNotify
    /\ toasts' = Append(toasts, NewToast)
    /\ toastTimers' = [toastTimers EXCEPT ![NewToast] = "pending"]

\* showNotification(message, type): the first element matching the class is
\* removed, the new element is appended to the body and its removal timer
\* set (5 s in script.js; 3 s, then 300 ms, in part_000).
ShowNotification ==
    /\ CanNotify
    /\ toasts' = Append(IF toasts = <<>> THEN toasts ELSE Tail(toasts), NewToast)
    /\ toastTimers' = [toastTimers EXCEPT ![NewToast] = "pending"]

\* The removal timer of notification `id`.  script.js: one 5 s callback that
\* removes the element if it is attached.  part_000: the 3 s callback slides
\* the element out and sets the 300 ms callback that removes it.
\* Faulty variant, for comparison: the slide-out never sets the callback
\* that removes the element.
LastStageNever(v, stage) == FALSE

\* Whether the callback that runs now is the one that removes the element.
LastStage(v, stage) == v = "soft" \/ stage = "sliding"

ToastTimer(id) ==
    /\ toastTimers[id] # "none"
    /\ IF LastStage(version, toastTimers[id])
       THEN /\ toasts' = RemoveToast(toasts, id)
            /\ toastTimers' = [toastTimers EXCEPT ![id] = "none"]
       ELSE /\ toastTimers' = [toastTimers EXCEPT ![id] = "sliding"]
            /\ UNCHANGED toasts
    /\ lastOp' = Op("toastTimer", ToString(id))

\* The close button of a notification (script.js only):
\* onclick="this.parentElement.parentElement.remove()"
ToastClose(id) ==
    /\ version = "soft"
    /\ Attached(id)
    /\ toasts' = RemoveToast(toasts, id)
    /\ UNCHANGED toastTimers
    /\ lastOp' = Op("toastClose", ToString(id))

InitToasts ==
    /\ toasts = <<>>
    /\ toastTimers = [id \in ToastIds |-> "none"]

(***************************************************************************)
(* The contact form: toggleContactForm and sendQuickEmail.  A string is a  *)
(* sequence of characters, so that encoding and parsing are computed.      *)
(***************************************************************************)
\* The characters encodeURIComponent leaves as they are.
Unreserved ==
    {"a", "b", "c", "d", "e", "f", "g", "h", "i", "j", "k", "l", "m", "n",
     "o", "p", "q", "r", "s", "t", "u", "v", "w", "x", "y", "z", "A", "B",
     "C", "D", "E", "F", "G", "H", "I", "J", "K", "L", "M", "N", "O", "P",
     "Q", "R", "S", "T", "U", "V", "W", "X", "Y", "Z", "0", "1", "2", "3",
     "4", "5", "6", "7", "8", "9", "-", "_", ".", "!", "~", "*", "'", "(", ")"}

\* The further characters encodeURI leaves as they are.
UriReserved == {";", "/", "?", ":", "@", "&", "=", "+", "$", ",", "#"}

\* The UTF-8 bytes of a character, each as its two hexadecimal digits
\* (percent-encoding writes the digits in upper case).
Utf8Hex(c) ==
    CASE c = " " -> <<<<"2", "0">>>>
      [] c = "\n" -> <<<<"0", "A">>>>
      [] c = "\r" -> <<<<"0", "D">>>>
      [] c = "%" -> <<<<"2", "5">>>>
      [] c = "&" -> <<<<"2", "6">>>>
      [] c = "+" -> <<<<"2", "B">>>>
      [] c = "," -> <<<<"2", "C">>>>
      [] c = "/" -> <<<<"2", "F">>>>
      [] c = ":" -> <<<<"3", "A">>>>
      [] c = ";" -> <<<<"3", "B">>>>
      [] c = "=" -> <<<<"3", "D">>>>
      [] c = "?" -> <<<<"3", "F">>>>
      [] c = "@" -> <<<<"4", "0">>>>
      [] c = "#" -> <<<<"2", "3">>>>
      [] c = "$" -> <<<<"2", "4">>>>
      [] c = "<" -> <<<<"3", "C">>>>
      [] c = ">" -> <<<<"3", "E">>>>
      [] c = "U+00E9" -> <<<<"C", "3">>, <<"A", "9">>>>

\* The characters the model writes into the form, beyond the unreserved ones.
Escaped == {" ", "\n", "\r", "%", "&", "+", ",", "/", ":", ";", "=", "?", "@",
            "#", "$", "<", ">", "U+00E9"}

\* The concatenation of a sequence of sequences (by halves, which keeps the
\* evaluation shallow on a long string).
RECURSIVE Flatten(_)
Flatten(seqs) ==
    IF seqs = <<>> THEN <<>>
    ELSE IF Len(seqs) = 1 THEN seqs[1]
    ELSE Flatten(SubSeq(seqs, 1, Len(seqs) \div 2))
           \o Flatten(SubSeq(seqs, Len(seqs) \div 2 + 1, Len(seqs)))

PercentBytes(c) == Flatten([i \in 1..Len(Utf8Hex(c)) |-> <<"%">> \o Utf8Hex(c)[i]])

\* Faulty variant, for comparison: encodeURI in place of encodeURIComponent.
EncodeCharAsURI(c) ==
    IF c \in Unreserved \cup UriReserved THEN <<c>> ELSE PercentBytes(c)

\* Faulty variant, for comparison: an encoder that leaves a literal percent sign alone.
EncodeCharKeepPercent(c) ==
    IF c \in Unreserved \cup {"%"} THEN <<c>> ELSE PercentBytes(c)

\* encodeURIComponent on one character.
EncodeChar(c) == IF c \in Unreserved THEN <<c>> ELSE PercentBytes(c)

EncodeURIComponent(str) == Flatten([i \in 1..Len(str) |-> EncodeChar(str[i])])

\* decodeURIComponent: a percent sign opens the bytes of one character.
EscapeOf == [c \in Escaped |-> PercentBytes(c)]

DecodesAt(str, c) ==
    /\ Len(EscapeOf[c]) <= Len(str)
    /\ SubSeq(str, 1, Len(EscapeOf[c])) = EscapeOf[c]

RECURSIVE DecodeRun(_)
DecodeRun(str) ==
    IF str = <<>> THEN <<>>
    ELSE IF Head(str) = "%" /\ \E c \in Escaped : DecodesAt(str, c)
    THEN LET c == CHOOSE c \in Escaped : DecodesAt(str, c)
         IN  <<c>> \o DecodeRun(SubSeq(str, Len(EscapeOf[c]) + 1, Len(str)))
    ELSE <<Head(str)>> \o DecodeRun(Tail(str))

\* Whether a character starts at position m: m is no hexadecimal digit of an
\* escape and no continuation byte (%80-%BF) of a character begun before it.
StartsCharacter(str, m) ==
    IF str[m] = "%"
    THEN m < Len(str) /\ str[m + 1] \notin {"8", "9", "A", "B"}
    ELSE (m < 2 \/ str[m - 1] # "%") /\ (m < 3 \/ str[m - 2] # "%")

\* A long string is decoded by halves, cut where a character starts.
RECURSIVE DecodeURIComponent(_)
DecodeURIComponent(str) ==
    LET cuts == {m \in (Len(str) \div 2 + 1)..Len(str) : StartsCharacter(str, m)}
    IN  IF Len(str) <= 12 \/ cuts = {} THEN DecodeRun(str)
        ELSE LET m == CHOOSE m \in cuts : \A k \in cuts : m <= k
             IN  DecodeURIComponent(SubSeq(str, 1, m - 1))
                   \o DecodeURIComponent(SubSeq(str, m, Len(str)))

MailtoScheme ==
    <<"m", "a", "i", "l", "t", "o", ":">>
Recipient ==
    <<"s", "g", "y", "a", "n", "m", "o", "t", "@", "y", "a", "h", "o", "o",
      ".", "c", "o", "m">>
SubjectKey ==
    <<"s", "u", "b", "j", "e", "c", "t">>
BodyKey ==
    <<"b", "o", "d", "y">>
SubjectPrefix ==
    <<"P", "o", "r", "t", "f", "o", "l", "i", "o", " ", "C", "o", "n", "t",
      "a", "c", "t", ":", " ">>
NameLabel ==
    <<"N", "a", "m", "e", ":", " ">>
EmailLabel ==
    <<"\n", "E", "m", "a", "i", "l", ":", " ">>
MessageLabel ==
    <<"\n", "\n", "M", "e", "s", "s", "a", "g", "e", ":", "\n">>
BodyFooter ==
    <<"\n", "\n", "-", "-", "-", "\n", "S", "e", "n", "t", " ", "f", "r",
      "o", "m", " ", "y", "o", "u", "r", " ", "p", "o", "r", "t", "f", "o",
      "l", "i", "o", " ", "w", "e", "b", "s", "i", "t", "e", " ", "c", "o",
      "n", "t", "a", "c", "t", " ", "f", "o", "r", "m">>

FieldNames == {"senderName", "senderEmail", "subject", "message"}

\* const emailSubject = `Portfolio Contact: ${subject}`
EmailSubject(f) == SubjectPrefix \o f.subject

\* const emailBody = `Name: ${senderName}\nEmail: ${senderEmail}\n\nMessage:\n${message}\n\n---\n...`
EmailBody(f) ==
    NameLabel \o f.senderName \o EmailLabel \o f.senderEmail \o MessageLabel
      \o f.message \o BodyFooter

\* const mailtoLink = `mailto:sgyanmot@yahoo.com?subject=${...}&body=${...}`
MailtoLink(f) ==
    MailtoScheme \o Recipient \o <<"?">> \o SubjectKey \o <<"=">>
      \o EncodeURIComponent(EmailSubject(f)) \o <<"&">> \o BodyKey \o <<"=">>
      \o EncodeURIComponent(EmailBody(f))

\* form.reset(): the controls go back to their default values.
EmptyFields == [n \in FieldNames |-> <<>>]

\* toggleContactForm().  It opens with event.target.closest('.email-btn'),
\* where `event` is window.event: the event being dispatched, and undefined
\* in a timer callback, where reading .target throws a TypeError before the
\* form is touched.  hasEvent says whether an event is being dispatched.
\* (The click effect on the button changes only the button's inline
\* transform.)
ToggleThrows(hasEvent) == ~hasEvent

ToggleContactForm(hasEvent) ==
    IF ~ToggleThrows(hasEvent)
    THEN /\ formHidden' = ~formHidden
         /\ ShowNotification
    ELSE UNCHANGED <<formHidden, toasts, toastTimers>>

\* The onclick of the contact button.
ContactButtonClick ==
    /\ ToggleContactForm(TRUE)
    /\ lastOp' = Op("toggleContactForm", "click")
    /\ UNCHANGED <<fields, submitted, location, hideTimers, hideTimerRan>>

\* sendQuickEmail(event): the submit handler of the form.
SendQuickEmail ==
    /\ ~formHidden
    /\ hideTimers < MaxHideTimers
    /\ submitted' = fields
    /\ location' = MailtoLink(fields)
    /\ ShowNotification
    /\ fields' = EmptyFields
    /\ hideTimers' = hideTimers + 1
    /\ lastOp' = Op("sendQuickEmail", "")
    /\ UNCHANGED <<formHidden, hideTimerRan>>

\* The 1000 ms callback of sendQuickEmail: () => { toggleContactForm(); }
HideTimer ==
    /\ hideTimers > 0
    /\ hideTimers' = hideTimers - 1
    /\ ToggleContactForm(FALSE)
    /\ hideTimerRan' = IF ToggleThrows(FALSE) THEN "TypeError" ELSE "completed"
    /\ lastOp' = Op("hideTimer", "")
    /\ UNCHANGED <<fields, submitted, location>>

InitMail(f) ==
    /\ fields = f
    /\ submitted = EmptyFields
    /\ location = <<>>
    /\ formHidden = TRUE
    /\ hideTimers = 0
    /\ hideTimerRan = "none"

(***************************************************************************)
(* Resume data hydration: loadResumeData and updateWebsiteContent          *)
(* (src/script.js only).  A JavaScript value that may be missing is a      *)
(* record [def, v]; a string is a sequence of tokens, so that join and     *)
(* replace are computed.  Every element the functions look up exists.      *)
(***************************************************************************)
Def(x) == [def |-> TRUE, v |-> x]
Undef == [def |-> FALSE, v |-> <<>>]

\* `${x}` in a template literal
Str(x) == IF x.def THEN x.v ELSE <<"undefined">>

\* array.join(sep) of an array of strings
RECURSIVE Join(_, _)
Join(arr, sep) ==
    IF arr = <<>> THEN <<>>
    ELSE IF Len(arr) = 1 THEN Head(arr)
    ELSE Head(arr) \o <<sep>> \o Join(Tail(arr), sep)

\* str.replace(pat, by): the first occurrence only
RECURSIVE Replace(_, _, _)
Replace(str, pat, by) ==
    IF str = <<>> THEN <<>>
    ELSE IF Head(str) = pat THEN by \o Tail(str)
    ELSE <<Head(str)>> \o Replace(Tail(str), pat, by)

Cached == <<"cached">>
TextContent(x) == <<"textContent">> \o (IF x.def THEN x.v ELSE <<>>)

Slots == {"title", "heroName", "heroTitle", "heroDescription", "contactDetails",
          "aboutName", "aboutTitle", "aboutDescription", "timeline",
          "projectsGrid", "professionalSummary", "expertiseGrid", "statsGrid"}

InitialPage == [s \in Slots |-> Cached]

\* The outcome of a function: the page it leaves and whether it threw.
Returned(pg) == [page |-> pg, threw |-> FALSE]
Threw(pg) == [page |-> pg, threw |-> TRUE]

\* updatePersonalInfo(personalInfo)
UpdatePersonalInfo(pg, pi) ==
    IF ~pi.def THEN Threw(pg)
    ELSE
      LET hero == [pg EXCEPT
                     !.title = <<"text">> \o Str(pi.v.name) \o <<" - ">> \o Str(pi.v.title),
                     !.heroName = TextContent(pi.v.name),
                     !.heroTitle = TextContent(pi.v.title),
                     !.heroDescription = TextContent(pi.v.summary)]
      IN  IF ~pi.v.email.def \/ ~pi.v.linkedin.def THEN Threw(hero)
          ELSE Returned([hero EXCEPT
                     !.contactDetails = <<"innerHTML">> \o Join(pi.v.email.v, " | ")
                                          \o Str(pi.v.phone)
                                          \o Replace(pi.v.linkedin.v, "https://", <<>>),
                     !.aboutName = TextContent(pi.v.name),
                     !.aboutTitle = TextContent(pi.v.title),
                     !.aboutDescription = TextContent(pi.v.summary)])

\* The forEach of updateExperienceSection: each item is appended to the
\* container unless reading its achievements throws.
RECURSIVE TimelineItems(_, _)
TimelineItems(html, items) ==
    IF items = <<>> THEN [html |-> html, threw |-> FALSE]
    ELSE IF ~Head(items).achievements.def THEN [html |-> html, threw |-> TRUE]
    ELSE TimelineItems(html \o Head(items).period \o Head(items).title
                         \o Head(items).company \o Head(items).description
                         \o Join(Head(items).achievements.v, ""),
                       Tail(items))

\* updateExperienceSection(experience)
UpdateExperienceSection(pg, experience) ==
    IF ~experience.def THEN Threw(pg)
    ELSE IF Len(experience.v) = 0 THEN Returned(pg)
    ELSE LET r == TimelineItems(<<"innerHTML">>, experience.v)
         IN  [page |-> [pg EXCEPT !.timeline = r.html], threw |-> r.threw]

\* The forEach of updateProjectsSection.
RECURSIVE ProjectCards(_, _)
ProjectCards(html, items) ==
    IF items = <<>> THEN [html |-> html, threw |-> FALSE]
    ELSE IF ~Head(items).technologies.def THEN [html |-> html, threw |-> TRUE]
    ELSE ProjectCards(html \o Head(items).title \o Head(items).description
                        \o Join(Head(items).technologies.v, ""),
                      Tail(items))

\* updateProjectsSection(projects)
UpdateProjectsSection(pg, projects) ==
    IF ~projects.def THEN Threw(pg)
    ELSE IF Len(projects.v) = 0 THEN Returned(pg)
    ELSE LET r == ProjectCards(<<"innerHTML">>, projects.v)
         IN  [page |-> [pg EXCEPT !.projectsGrid = r.html], threw |-> r.threw]

\* updateAboutSection(data)
UpdateAboutSection(pg, data) ==
    LET about == [pg EXCEPT !.professionalSummary = TextContent(data.personalInfo.v.summary)]
        sk == data.skills
    IN  IF ~sk.def THEN Returned(about)
        ELSE IF ~sk.v.databases.def \/ ~sk.v.cloud.def \/ ~sk.v.specialties.def
        THEN Threw(about)
        ELSE Returned([about EXCEPT
                 !.expertiseGrid = <<"innerHTML">> \o Join(sk.v.databases.v, ", ")
                                     \o Join(sk.v.cloud.v, ", ")
                                     \o Join(sk.v.specialties.v, ", ")])

\* updateStats(stats)
UpdateStats(pg, stats) ==
    IF ~stats.def THEN Returned(pg)
    ELSE IF ~stats.v.experience.def \/ ~stats.v.migrations.def
            \/ ~stats.v.customers.def \/ ~stats.v.uptime.def
    THEN Threw(pg)
    ELSE Returned([pg EXCEPT
             !.statsGrid = <<"innerHTML">>
                 \o Replace(stats.v.experience.v, " Years", <<"+">>)
                 \o Replace(stats.v.migrations.v, " Customer Migrations", <<"+">>)
                 \o Replace(stats.v.customers.v, " Customers Supported", <<"+">>)
                 \o Replace(stats.v.uptime.v, " Uptime Achieved", <<>>)])

\* updateWebsiteContent(data); reading a property of null throws.
UpdateWebsiteContent(pg, data) ==
    IF ~data.def THEN Threw(pg)
    ELSE
      LET r1 == UpdatePersonalInfo(pg, data.v.personalInfo)
          r2 == IF r1.threw THEN r1 ELSE UpdateExperienceSection(r1.page, data.v.experience)
          r3 == IF r2.threw THEN r2 ELSE UpdateProjectsSection(r2.page, data.v.projects)
          r4 == IF r3.threw THEN r3 ELSE UpdateAboutSection(r3.page, data.v)
      IN  IF r4.threw THEN r4 ELSE UpdateStats(r4.page, data.v.stats)

\* ---- the documents resume-data.json is drawn from
GoodPersonalInfo ==
    [name |-> Def(<<"Ann">>), title |-> Def(<<"DBA">>), summary |-> Def(<<"Sum">>),
     phone |-> Def(<<"555">>), email |-> Def(<<<<"a@x">>, <<"b@y">>>>),
     linkedin |-> Def(<<"https://", "linkedin.com/in/ann">>)]
GoodJob ==
    [period |-> <<"2020">>, title |-> <<"Lead">>, company |-> <<"Co">>,
     description |-> <<"Did">>, achievements |-> Def(<<<<"won">>>>)]
GoodProject ==
    [title |-> <<"Proj">>, description |-> <<"Desc">>,
     technologies |-> Def(<<<<"SQL">>>>)]
GoodSkills ==
    [databases |-> Def(<<<<"Oracle">>>>), cloud |-> Def(<<<<"OCI">>, <<"AWS">>>>),
     specialties |-> Def(<<<<"Tuning">>>>)]
GoodStats ==
    [experience |-> Def(<<"20", " Years">>),
     migrations |-> Def(<<"50", " Customer Migrations">>),
     customers |-> Def(<<"90", " Customers Supported">>),
     uptime |-> Def(<<"99.9%", " Uptime Achieved">>)]
GoodData ==
    [personalInfo |-> Def(GoodPersonalInfo), experience |-> Def(<<GoodJob, GoodJob>>),
     projects |-> Def(<<GoodProject>>), skills |-> Def(GoodSkills),
     stats |-> Def(GoodStats)]

\* The tokens of a string that the HTML parser reads as a tag.
Markup == {"<img>"}

\* The elements the browser creates from the data written into a slot: an
\* innerHTML assignment parses its string, so each tag in it becomes an
\* element; textContent and document.title take the string as text.  (The
\* elements of the templates themselves are the same for every document.)
ParsedElements(content) ==
    IF content # <<>> /\ Head(content) = "innerHTML"
    THEN Len(SelectSeq(content, LAMBDA t : t \in Markup))
    ELSE 0

\* The complete document, documents with one field missing or malformed,
\* and documents with a tag in one of their strings.
Documents ==
    << Def(GoodData),
       [def |-> FALSE, v |-> GoodData],
       Def([GoodData EXCEPT !.personalInfo = [def |-> FALSE, v |-> GoodPersonalInfo]]),
       Def([GoodData EXCEPT !.personalInfo = Def([GoodPersonalInfo EXCEPT !.name = Undef])]),
       Def([GoodData EXCEPT !.personalInfo = Def([GoodPersonalInfo EXCEPT !.email = Undef])]),
       Def([GoodData EXCEPT !.personalInfo = Def([GoodPersonalInfo EXCEPT !.linkedin = Undef])]),
       Def([GoodData EXCEPT !.experience = [def |-> FALSE, v |-> <<>>]]),
       Def([GoodData EXCEPT !.experience = Def(<<>>)]),
       Def([GoodData EXCEPT !.experience =
              Def(<<GoodJob, [GoodJob EXCEPT !.achievements = Undef]>>)]),
       Def([GoodData EXCEPT !.projects = [def |-> FALSE, v |-> <<>>]]),
       Def([GoodData EXCEPT !.projects = Def(<<>>)]),
       Def([GoodData EXCEPT !.projects =
              Def(<<[GoodProject EXCEPT !.technologies = Undef]>>)]),
       Def([GoodData EXCEPT !.skills = [def |-> FALSE, v |-> GoodSkills]]),
       Def([GoodData EXCEPT !.skills = Def([GoodSkills EXCEPT !.cloud = Undef])]),
       Def([GoodData EXCEPT !.stats = [def |-> FALSE, v |-> GoodStats]]),
       Def([GoodData EXCEPT !.stats = Def([GoodStats EXCEPT !.uptime = Undef])]),
       Def([GoodData EXCEPT !.personalInfo =
              Def([GoodPersonalInfo EXCEPT !.name = Def(<<"<img>">>)])]),
       Def([GoodData EXCEPT !.personalInfo =
              Def([GoodPersonalInfo EXCEPT !.phone = Def(<<"<img>">>)])]),
       Def([GoodData EXCEPT !.experience =
              Def(<<[GoodJob EXCEPT !.company = <<"<img>">>]>>)]) >>

NoRun == [fetchOk |-> FALSE, parsed |-> FALSE, updated |-> FALSE]

\* Faulty variant, for comparison: the success notification is shown before the content is updated.
NotesOfEarlySuccess(threw) == IF threw THEN <<"success", "error">> ELSE <<"success">>

\* The notifications of lines 1007-1013: the success notification follows
\* updateWebsiteContent inside the try block, the error notification is the
\* catch block's.
NotesOf(threw) == IF threw THEN <<"error">> ELSE <<"success">>

\* The DOMContentLoaded listener of line 1190 calls loadResumeData, which
\* runs up to its first await: the fetch is issued.
LoadResumeData ==
    /\ version = "soft"
    /\ resumePc = "idle"
    /\ resumePc' = "fetch"
    /\ resumePromise' = "pending"
    /\ fetchCalls' = fetchCalls + 1
    /\ pageBefore' = page
    /\ resumeNotes' = <<>>
    /\ resumeRun' = NoRun
    /\ lastOp' = Op("loadResumeData", "")
    /\ UNCHANGED <<page, toasts, toastTimers>>

\* The fetch settles: it rejects, or resolves with response.ok false (the
\* try block throws), or resolves with response.ok true (response.json() is
\* awaited).
FetchSettles(outcome) ==
    /\ resumePc = "fetch"
    /\ IF outcome = "ok"
       THEN /\ resumePc' = "json"
            /\ resumeRun' = [resumeRun EXCEPT !.fetchOk = TRUE]
            /\ UNCHANGED <<resumePromise, resumeNotes, toasts, toastTimers>>
       ELSE /\ resumePc' = "done"
            /\ resumePromise' = "fulfilled"
            /\ resumeNotes' = resumeNotes \o NotesOf(TRUE)
            /\ ShowNotification
            /\ UNCHANGED resumeRun
    /\ lastOp' = Op("fetchSettles", outcome)
    /\ UNCHANGED <<fetchCalls, page, pageBefore>>

\* response.json() settles: it rejects (doc = 0, the body is no JSON), or
\* resolves with document `doc`, and the function runs to its end.
JsonSettles(doc) ==
    /\ resumePc = "json"
    /\ resumePc' = "done"
    /\ resumePromise' = "fulfilled"
    /\ ShowNotification
    /\ IF doc = 0
       THEN /\ resumeNotes' = resumeNotes \o NotesOf(TRUE)
            /\ UNCHANGED <<page, resumeRun>>
       ELSE LET r == UpdateWebsiteContent(page, Documents[doc])
            IN  /\ page' = r.page
                /\ resumeNotes' = resumeNotes \o NotesOf(r.threw)
                /\ resumeRun' = [resumeRun EXCEPT !.parsed = TRUE, !.updated = ~r.threw]
    /\ lastOp' = Op("jsonSettles", IF doc = 0 THEN "rejected" ELSE "resolved")
    /\ UNCHANGED <<fetchCalls, pageBefore>>

InitResume ==
    /\ resumePc = "idle"
    /\ resumePromise = "none"
    /\ resumeNotes = <<>>
    /\ resumeRun = NoRun
    /\ fetchCalls = 0
    /\ page = InitialPage
    /\ pageBefore = InitialPage

(***************************************************************************)
(* The click effect: addClickEffect on a desk item (the notepad), whose    *)
(* inline transform the mousemove parallax rewrites.  A string is a        *)
(* sequence of tokens: a transform function, or one space.                 *)
(***************************************************************************)
TranslateTokens == {"translate(-0.5px, 0.5px)", "translate(1px, -1px)"}

\* The operand of line 570 and the pattern of line 573: ' scale(0.95)'
ScaleSuffix == <<" ", "scale(0.95)">>

\* What element.style.transform reads after `str` has been assigned to it:
\* the browser parses the value and serialises the transform functions with
\* one space between them and none before or after.
Serialise(str) ==
    LET fns == SelectSeq(str, LAMBDA t : t # " ")
    IN  Join([i \in 1..Len(fns) |-> <<fns[i]>>], " ")

\* Whether `pat` occurs in str at position i.
OccursAt(str, pat, i) ==
    i + Len(pat) - 1 <= Len(str) /\ SubSeq(str, i, i + Len(pat) - 1) = pat

\* str.replace(pat, ''): the first occurrence of the string pat is removed.
RemoveFirst(str, pat) ==
    IF \E i \in 1..Len(str) : OccursAt(str, pat, i)
    THEN LET i == CHOOSE i \in 1..Len(str) :
                    OccursAt(str, pat, i) /\ \A j \in 1..(i - 1) : ~OccursAt(str, pat, j)
         IN  SubSeq(str, 1, i - 1) \o SubSeq(str, i + Len(pat), Len(str))
    ELSE str

\* addClickEffect(element)
AddClickEffect ==
    /\ scaleTimers < MaxScaleTimers
    /\ transform' = Serialise(transform \o ScaleSuffix)
    /\ scaleTimers' = scaleTimers + 1

\* The click listener of the notepad: showNotification, then addClickEffect.
NotepadClick ==
    /\ ShowNotification
    /\ AddClickEffect
    /\ lastOp' = Op("notepadClick", "")

\* The 150 ms callback of addClickEffect.
ScaleTimer ==
    /\ scaleTimers > 0
    /\ scaleTimers' = scaleTimers - 1
    /\ transform' = Serialise(RemoveFirst(transform, ScaleSuffix))
    /\ lastOp' = Op("scaleTimer", "")
    /\ UNCHANGED toastVars

\* The mousemove listener of initializeAnimations, on this desk item.
MouseMove(to) ==
    /\ transform' = Serialise(<<to>>)
    /\ lastOp' = Op("mousemove", to)
    /\ UNCHANGED <<scaleTimers, toastVars>>

InitClick ==
    /\ transform = <<>>
    /\ scaleTimers = 0

(***************************************************************************)
(* The page load and the specifications.                                   *)
(***************************************************************************)
\* What the form controls hold when the model starts: plain text and text
\* that tries to break out of the mailto link.
FieldValues ==
    { <<>>,
      <<"&", "c", "c", "=", "e", "@", "x">>,
      <<"a", "\r", "\n", "B", "c", "c", ":", " ", "e">>,
      <<"%", "2", "6", "?", ",", "U+00E9", "#">> }

FieldRecords == [FieldNames -> FieldValues]

\* The state once the script has run: new SoundSystem() (line 186),
\* new ThemeManager() (line 251) and the listeners registered.
InitWith(versions, oks, formValues) ==
    /\ version \in versions
    /\ lastOp = Op("load", "none")
    /\ InitNav
    /\ InitSound(oks)
    /\ InitTheme(NULL)
    /\ InitToasts
    /\ \E f \in formValues : InitMail(f)
    /\ InitResume
    /\ InitClick

Init == InitWith(Versions, BOOLEAN, {EmptyFields})

\* The page is loaded again: the script runs anew in a fresh document and
\* every timer of the old document is gone.  localStorage is what remains.
Reload ==
    /\ version' = version
    /\ lastOp' = Op("load", IF currentTheme = NULL THEN "none" ELSE currentTheme)
    /\ heroDisplay' = ""
    /\ hidden' = [e \in Elements |-> e \in ContentSections]
    /\ display' = [e \in Elements |-> ""]
    /\ activeLink' = "home"
    /\ \E ok \in BOOLEAN :
          /\ audioContext' = IF ok THEN "ctx" ELSE NULL
          /\ soundsBound' = SoundsAfterInit(ok, FALSE)
          /\ initFailed' = IF ok THEN 0 ELSE 1
    /\ initCalls' = 1
    /\ isEnabled' = TRUE
    /\ volume' = InitialVolume(version)
    /\ chordTimers' = 0
    /\ NoSound
    /\ toggleIcon' = "speaker"
    /\ toggleTitle' = "Toggle Sound Effects"
    /\ clickEffects' = 0
    /\ IF version = "soft"
       THEN SetTheme(SavedTheme(localTheme))
       ELSE UNCHANGED <<currentTheme, dataTheme, localTheme, metaColor>>
    /\ bodyTransition' = ""
    /\ themeTimers' = 0
    /\ toasts' = <<>>
    /\ toastTimers' = [id \in ToastIds |-> "none"]
    /\ fields' = EmptyFields
    /\ submitted' = EmptyFields
    /\ location' = <<>>
    /\ formHidden' = TRUE
    /\ hideTimers' = 0
    /\ hideTimerRan' = "none"
    /\ resumePc' = "idle"
    /\ resumePromise' = "none"
    /\ resumeNotes' = <<>>
    /\ resumeRun' = NoRun
    /\ fetchCalls' = 0
    /\ page' = InitialPage
    /\ pageBefore' = InitialPage
    /\ transform' = <<>>
    /\ scaleTimers' = 0

NextKeys ==
    /\ \E k \in {"Escape", "1", "2", "3", "4"} : KeyNavigation(k)
    /\ UNCHANGED <<version, clickVars, soundVars, themeVars, mailVars, toastVars, resumeVars>>

NextNav ==
    \/ /\ \/ \E t \in NavTargets : NavLinkClick(t)
          \/ \E id \in SectionIds : OpenSection(id)
       /\ UNCHANGED <<version, clickVars, soundVars, themeVars, mailVars, toastVars, resumeVars>>
    \/ NextKeys

NextSound ==
    /\ \/ \E n \in SoundNames : PlaySound(n)
       \/ ChordNoteTimer
       \/ SoundToggleClick
       \/ \E k \in {"click", "touchstart"}, ok \in BOOLEAN : CaptureListener(k, ok)
       \/ ClickEffectTimer
    /\ UNCHANGED <<version, clickVars, navVars, themeVars, mailVars, toastVars, resumeVars>>

\* Calls of setVolume: values below, within and above the range, and NaN.
VolumeInputs == {Num(0 - 50), Num(0), Num(40), Num(100), Num(150), NaN}

NextVolume ==
    /\ \E v \in VolumeInputs : SetVolume(v)
    /\ UNCHANGED <<version, clickVars, navVars, themeVars, mailVars, toastVars, resumeVars>>

NextClick ==
    /\ \/ NotepadClick
       \/ ScaleTimer
       \/ \E to \in TranslateTokens : MouseMove(to)
    /\ UNCHANGED <<version, navVars, soundVars, themeVars, mailVars, resumeVars>>

NextTheme ==
    \/ /\ ToggleTheme
       /\ UNCHANGED <<version, clickVars, navVars, mailVars, toastVars, resumeVars>>
    \/ /\ ThemeTimer
       /\ UNCHANGED <<version, clickVars, navVars, soundVars, mailVars, toastVars, resumeVars>>

NextToast ==
    /\ \/ \E id \in ToastIds : ToastTimer(id)
       \/ \E id \in ToastIds : ToastClose(id)
    /\ UNCHANGED <<version, clickVars, navVars, soundVars, themeVars, mailVars, resumeVars>>

NextMail ==
    /\ \/ ContactButtonClick
       \/ SendQuickEmail
       \/ HideTimer
    /\ UNCHANGED <<version, clickVars, navVars, soundVars, themeVars, resumeVars>>

NextResume ==
    /\ \/ LoadResumeData
       \/ \E o \in {"rejected", "notOk", "ok"} : FetchSettles(o)
       \/ \E d \in 0..Len(Documents) : JsonSettles(d)
    /\ UNCHANGED <<version, clickVars, navVars, soundVars, themeVars, mailVars>>

Next ==
    \/ NextNav
    \/ NextSound
    \/ NextTheme
    \/ NextToast
    \/ NextMail
    \/ NextResume
    \/ NextVolume
    \/ NextClick
    \/ Reload

Spec == Init /\ [][Next]_vars

\* Section navigation alone.
SpecNav == InitWith(Versions, {TRUE}, {EmptyFields}) /\ [][NextNav]_vars

\* The sound system, with the hydration that runs beside it.
SpecSound == Init /\ [][NextSound \/ NextResume \/ NextToast]_vars

\* The sound system with setVolume called on it.
SpecVolume == Init /\ [][NextSound \/ NextVolume]_vars

\* The click effect on a desk item, with the notifications its click shows.
SpecClick == Init /\ [][NextClick \/ NextToast]_vars

\* Page loads: what a load finds of the navigation, the theme, the contact
\* form and the notifications of the load before it.
SpecLoad == Init /\ [][NextKeys \/ NextTheme \/ NextMail \/ NextToast \/ Reload]_vars

\* The contact form, for every value of its four fields.
SpecMail == InitWith(Versions, {TRUE}, FieldRecords) /\ [][NextMail \/ NextToast]_vars

\* The hydration of the page from resume-data.json.
SpecResume == Init /\ [][NextResume \/ NextToast]_vars

\* The notifications, with everything that calls showNotification.
NextNotify == NextMail \/ NextResume \/ NextToast

SpecToast == InitWith(Versions, {TRUE}, {EmptyFields}) /\ [][NextNotify]_vars

\* A timer that has been set fires: the browser runs every pending callback.
ToastTimerFires(id) ==
    /\ ToastTimer(id)
    /\ UNCHANGED <<version, clickVars, navVars, soundVars, themeVars, mailVars, resumeVars>>

SpecToastLive == SpecToast /\ \A id \in ToastIds : WF_vars(ToastTimerFires(id))

(***************************************************************************)
(* Properties.                                                             *)
(***************************************************************************)
Shown == {s \in ContentSections : ~hidden[s]}

\* C1: after showSection(id) for a content section id, that section is the
\* only content section without 'hidden' and the hero has display 'none';
\* after showHeroSection() every content section carries 'hidden' and the
\* hero has display 'flex'.
OneSectionAtATime ==
    /\ (lastOp.op = "showSection" /\ lastOp.arg \in ContentSections)
          => (Shown = {lastOp.arg} /\ heroDisplay = "none")
    /\ lastOp.op = "showHeroSection"
          => (Shown = {} /\ heroDisplay = "flex")

\* C1 witness: a section is shown after another one had been shown.
SecondSectionShown ==
    /\ lastOp = Op("showSection", "contact")
    /\ display["about"] = "block"
    /\ Shown = {"contact"}

\* C2: after every showSection(id) and showHeroSection(), the hero scene is
\* displayed or exactly one content section lacks 'hidden'.
NeverBlank ==
    lastOp.op \in {"showSection", "showHeroSection"}
       => (heroDisplay # "none" \/ Cardinality(Shown) = 1)

\* C3: while isEnabled is false no source node is started, by any handler or
\* timer callback.
SilentWhileDisabled == ~isEnabled => lastStarted = 0

\* C4 as stated: every load starts in the same state, whatever was done in
\* the load before it.
EveryLoadStartsAlike ==
    (lastOp.op = "load" /\ version = "soft")
       => (currentTheme = "light" /\ dataTheme = "light" /\ metaColor = "#ffffff")

FreshDocument ==
    /\ heroDisplay = "" /\ Shown = {} /\ activeLink = "home"
    /\ \A e \in Elements : display[e] = ""
    /\ isEnabled /\ initCalls = 1 /\ chordTimers = 0 /\ clickEffects = 0
    /\ bodyTransition = "" /\ themeTimers = 0
    /\ toasts = <<>> /\ \A id \in ToastIds : toastTimers[id] = "none"
    /\ fields = EmptyFields /\ location = <<>> /\ formHidden /\ hideTimers = 0
    /\ resumePc = "idle" /\ fetchCalls = 0 /\ page = InitialPage

\* C4, amended: a load starts from a fresh document, except that the theme
\* of the load before it is kept (through localStorage).
OnlyThemePersists ==
    lastOp.op = "load"
       => /\ FreshDocument
          /\ lastOp.arg # "none"
                => (currentTheme = lastOp.arg /\ dataTheme = lastOp.arg
                      /\ localTheme = lastOp.arg /\ metaColor = MetaColor(lastOp.arg))

\* C4 witness: a page loaded after the dark theme had been chosen.
LoadedDark == lastOp = Op("load", "dark") /\ currentTheme = "dark"

\* C5 as stated: once init has failed it is not invoked again in that page
\* load, and a failed fetch is not issued again.
NoRetry == (initFailed > 0 => initCalls = 1) /\ fetchCalls <= 1

\* C5, amended: the fetch is issued once and never again; init is invoked
\* again, by the capture listeners of script.js only, and only while every
\* call before it has failed to create the context.
RetryOnlyInit ==
    /\ fetchCalls <= 1
    /\ resumePc # "idle" => fetchCalls = 1
    /\ initCalls > 1 => version = "soft"
    /\ initFailed = IF audioContext = NULL THEN initCalls ELSE initCalls - 1

\* C5 witness: init failed, was called again and succeeded, beside a fetch
\* that failed and was left at that.
InitRetried ==
    /\ initCalls = 2 /\ initFailed = 1 /\ audioContext = "ctx"
    /\ resumePc = "done" /\ resumeNotes = <<"error">> /\ ~resumeRun.fetchOk

\* ---- the mailto link as a mail client reads it (RFC 6068)
\* The index of the first `ch` in str, or 0.
IndexOf(str, ch) ==
    IF \E i \in 1..Len(str) : str[i] = ch
    THEN CHOOSE i \in 1..Len(str) : str[i] = ch /\ \A j \in 1..(i - 1) : str[j] # ch
    ELSE 0

Before(str, ch) == IF IndexOf(str, ch) = 0 THEN str ELSE SubSeq(str, 1, IndexOf(str, ch) - 1)
After(str, ch) == IF IndexOf(str, ch) = 0 THEN <<>> ELSE SubSeq(str, IndexOf(str, ch) + 1, Len(str))

RECURSIVE Split(_, _)
Split(str, ch) ==
    IF IndexOf(str, ch) = 0 THEN <<str>>
    ELSE <<Before(str, ch)>> \o Split(After(str, ch), ch)

LinkScheme(link) == SubSeq(link, 1, Len(MailtoScheme))
LinkRecipients(link) ==
    Split(Before(SubSeq(link, Len(MailtoScheme) + 1, Len(link)), "?"), ",")
LinkParams(link) == Split(After(link, "?"), "&")
ParamNames(link) == [i \in 1..Len(LinkParams(link)) |-> Before(LinkParams(link)[i], "=")]
ParamValue(link, i) == After(LinkParams(link)[i], "=")

\* C6: the link sendQuickEmail has just opened has the single recipient
\* sgyanmot@yahoo.com and exactly the two parameters subject and body,
\* whatever the four fields hold.
SingleRecipientTwoParams ==
    lastOp.op = "sendQuickEmail"
       => /\ LinkScheme(location) = MailtoScheme
          /\ LinkRecipients(location) = <<Recipient>>
          /\ ParamNames(location) = <<SubjectKey, BodyKey>>

\* C6 witness: a link built from a subject that holds '&cc=' and a message
\* that holds '?' and ','.
HostileFieldsSent ==
    /\ lastOp.op = "sendQuickEmail"
    /\ IndexOf(submitted.subject, "&") > 0
    /\ IndexOf(submitted.message, "?") > 0
    /\ IndexOf(submitted.senderName, "\n") > 0

\* C7: decoding the subject parameter of the link sendQuickEmail has just
\* opened gives 'Portfolio Contact: ' and the subject field; decoding the
\* body parameter gives the name, email and message lines with the fields
\* verbatim.
FieldsArriveVerbatim ==
    lastOp.op = "sendQuickEmail"
       => /\ Len(LinkParams(location)) >= 2 /\ DecodeURIComponent(ParamValue(location, 1)) = SubjectPrefix \o submitted.subject
          /\ DecodeURIComponent(ParamValue(location, 2)) =
                NameLabel \o submitted.senderName \o EmailLabel \o submitted.senderEmail
                  \o MessageLabel \o submitted.message \o BodyFooter

\* C7 witness: a link built from a message that holds a literal '%26' and a
\* non-ASCII letter.
PercentTextSent ==
    /\ lastOp.op = "sendQuickEmail"
    /\ IndexOf(submitted.message, "%") > 0
    /\ IndexOf(submitted.message, "U+00E9") > 0
    /\ submitted.senderEmail # <<>>

\* C8: once the 1000 ms callback of sendQuickEmail has run, toggleContactForm
\* has completed and #quickContactForm carries 'hidden'.
FormHiddenAfterSubmit ==
    lastOp.op = "hideTimer" => (hideTimerRan = "completed" /\ formHidden)

\* C9: a call of loadResumeData that has ended has shown exactly one
\* notification and its promise is fulfilled; the notification is 'success'
\* exactly when the fetch was ok, the body parsed and the update completed.
OneNotificationPerLoad ==
    /\ resumePc = "done"
          => /\ Len(resumeNotes) = 1
             /\ resumePromise = "fulfilled"
             /\ resumeNotes[1] \in {"success", "error"}
             /\ resumeNotes[1] = "success"
                   <=> (resumeRun.fetchOk /\ resumeRun.parsed /\ resumeRun.updated)
    /\ resumePc # "done" => (resumeNotes = <<>> /\ resumePromise # "rejected")

\* C9 witness: the call ended with the error notification because the update
\* threw on a document that had been fetched and parsed.
UpdateThrewNotified ==
    /\ resumePc = "done" /\ resumeNotes = <<"error">>
    /\ resumeRun.fetchOk /\ resumeRun.parsed /\ ~resumeRun.updated
    /\ Len(toasts) = 1

\* C10: a call that showed the failure notification has overwritten no page
\* content.
FailureLeavesPage ==
    (resumePc = "done" /\ resumeNotes = <<"error">>) => page = pageBefore

\* C11: at most one notification is attached to the document, in every
\* state reached by showNotification calls, close clicks and timer callbacks.
AtMostOneToast == Len(toasts) <= 1

\* C11 witness: a second notification has replaced the first, whose timer is
\* still pending.
ToastReplaced == toasts = <<2>> /\ toastTimers[1] = "pending"

\* C12: every notification attached to the document is eventually detached,
\* given only that pending timers fire.
ToastEventuallyRemoved == \A id \in ToastIds : Attached(id) ~> ~Attached(id)

\* C12 witness: the timer of the notification on screen has just removed it
\* (in part_000: after the slide-out).
ToastTimedOut ==
    /\ lastOp = Op("toastTimer", "2")
    /\ toasts = <<>>
    /\ \A id \in ToastIds : toastTimers[id] = "none"

\* C13: a notification is detached only by its own timer, by its own close
\* button or in the step that attaches a later notification; and a timer
\* callback leaves the timers of the other notifications as they are.
OnlyOwnTimerRemoves ==
    [][ /\ \A id \in ToastIds :
              (Attached(id) /\ ~Attached(id)')
                 => \/ lastOp' = Op("toastTimer", ToString(id))
                    \/ lastOp' = Op("toastClose", ToString(id))
                    \/ \E j \in ToastIds \ {id} : ~Attached(j) /\ Attached(j)'
        /\ lastOp'.op = "toastTimer"
              => \A id \in ToastIds :
                    ToString(id) # lastOp'.arg => toastTimers'[id] = toastTimers[id]
      ]_vars

\* C13 witness: the timer of a replaced notification has fired and the later
\* notification is still attached, its own timer pending.
EarlierTimerFired ==
    /\ lastOp = Op("toastTimer", "1")
    /\ toasts = <<2>>
    /\ toastTimers[2] = "pending"

PlayNeverThrows ==
    (~volume.nan /\ volume.n >= 0 /\ volume.n <= 100) => lastError = "none"

\* C16: without an audio context the sounds stay unbound, and no handler
\* (play, toggle, setVolume, the capture listeners) raises an error, starts
\* a node or sets a chord timer.
NoAudioNoError ==
    audioContext = NULL
       => /\ ~soundsBound
          /\ lastError = "none"
          /\ lastStarted = 0 /\ lastNodes = <<>> /\ chordTimers = 0

\* C16 witness: a play after a toggle and a setVolume, on a page whose
\* AudioContext constructor has thrown each time it was called.
PlayedWithoutAudio ==
    /\ audioContext = NULL /\ initFailed = initCalls
    /\ lastOp = Op("play", "success")
    /\ ~isEnabled /\ volume = Num(0)

\* C17: the stored volume is a number in [0, 1].
VolumeInRange == ~volume.nan /\ volume.n >= 0 /\ volume.n <= 100

ClickEffectTransient ==
    scaleTimers = 0 => \A i \in 1..Len(transform) : transform[i] # "scale(0.95)"

\* C20: after a hydration that succeeded, no string of the document has
\* been parsed as markup: no slot of the page holds an element made from
\* the data.
FetchedDataIsText ==
    (resumePc = "done" /\ resumeNotes = <<"success">>)
       => \A s \in Slots : ParsedElements(page[s]) = 0

====
